---- MODULE Spec2Model ----
(***************************************************************************)
(* moonraker-cli: a blocking terminal UI loop and an asynchronous network  *)
(* loop joined by two bounded channels, and the CommandInput line widget.  *)
(* Model of src/src/main.rs.                                               *)
(***************************************************************************)
EXTENDS Integers, Sequences, FiniteSets, TLC

VARIABLES
    cmd_input,      \* cmd.input: the widget's buffer, a sequence of characters
    area,           \* frame.area(): [width, height] of the terminal
    build,          \* "debug" (overflow checks on) or "release" (wrapping)
    responses,      \* the scrollback Vec<String>
    io_q,           \* buffered messages of the command channel (io_tx -> io_rx)
    network_q,      \* buffered messages of the response channel (network_tx -> network_rx)
    io_pc,          \* position of the io_thread closure
    io_pending,     \* the `input` local handed to io_tx.blocking_send
    io_result,      \* what the io_thread closure ended with
    net_pc,         \* position of the network_loop future
    net_local,      \* network_loop's locals: the request, then the formatted response
    net_result,     \* what network_loop returned
    in_flight,      \* requests sent to the server and not yet answered
    outcome,        \* what main returns from select!
    raw_screen,     \* raw mode / alternate screen held (ratatui::init .. restore)
    mouse_capture,  \* mouse capture enabled
    submitted,      \* history: the commands the UI loop pushed, in order
    issued          \* history: the requests the network loop sent, in order

vars == <<cmd_input, area, build, responses, io_q, network_q, io_pc,
          io_pending, io_result, net_pc, net_local, net_result, in_flight,
          outcome, raw_screen, mouse_capture, submitted, issued>>

widget_vars == <<cmd_input, area, build>>
thread_vars == <<responses, io_q, network_q, io_pc, io_pending, io_result,
                 net_pc, net_local, net_result, in_flight, outcome,
                 raw_screen, mouse_capture, submitted, issued>>

-----------------------------------------------------------------------------
(* Bounds of the model *)

MaxInput == 1      \* longest buffer typed in the session model
MaxCmds == 3       \* most commands submitted in one session
MaxWidth == 2      \* widest terminal of the session model
MaxHeight == 2     \* tallest terminal; the session model's terminal has this height
MaxWInput == 4     \* longest short buffer of the widget model
MaxWWidth == 5     \* widest narrow terminal of the widget model
WideWidth == 40000 \* a wide terminal of the widget model (Rect.width is a u16)
LongLen == 65534   \* a long buffer of the widget model: prompt + buffer = 65536
MaxLongMore == 2   \* most characters typed after a long buffer

(* Program constants *)

Capacity == 2          \* mpsc::channel::<String>(2)
U16Modulus == 65536    \* range of `as u16`

Chars == {"a", "c"}
Prompt == <<">", " ">>

Min(a, b) == IF a < b THEN a ELSE b

-----------------------------------------------------------------------------
(* CommandInput *)

Key(code, modifiers, kind) == [type |-> "Key", code |-> code,
                               modifiers |-> modifiers, kind |-> kind]

\* CommandInput::on_key_press
on_key_press_remove_first(input, event) ==
    IF event.code \in Chars THEN Append(input, event.code)
    ELSE IF event.code = "Backspace"
         THEN (IF input = <<>> THEN input ELSE SubSeq(input, 2, Len(input)))
         ELSE input
on_key_press(input, event) ==
    IF event.code \in Chars THEN Append(input, event.code)
    ELSE IF event.code = "Backspace"
         THEN (IF input = <<>> THEN input ELSE SubSeq(input, 1, Len(input) - 1))
         ELSE input

\* CommandInput::len
len(input) == Len(Prompt) + Len(input)

\* `self.len() as u16`
AsU16(n) == n % U16Modulus

\* CommandInput::cursor_position
cursor_position(input, a) ==
    [x |-> AsU16(len(input)) % a.width, y |-> a.height]

\* the u16 addition of lines_count overflows: a panic with overflow checks
lines_count_overflows(input, a) ==
    (AsU16(len(input)) \div a.width) + 1 >= U16Modulus

\* CommandInput::lines_count
lines_count(input, a) ==
    ((AsU16(len(input)) \div a.width) + 1) % U16Modulus

\* Iterator::take(n).collect() and what it leaves in the iterator
Take(s, n) == SubSeq(s, 1, Min(n, Len(s)))
Drop(s, n) == SubSeq(s, Min(n, Len(s)) + 1, Len(s))

\* `width - self.prompt.len()` on usize underflows when width < 2
render_underflows(width) == width < Len(Prompt)

\* the count given to the first take(): on underflow without overflow checks
\* it wraps to 2^64 - (2 - width), more than any String holds, so that the
\* take() yields every remaining character
first_take(input, width) ==
    IF render_underflows(width) THEN Len(input) ELSE width - Len(Prompt)

\* the `loop` of render: successive take(width) until an empty line
RECURSIVE render_loop(_, _)
render_loop(chars, width) ==
    IF Take(chars, width) = <<>> THEN <<>>
    ELSE <<Take(chars, width)>> \o render_loop(Drop(chars, width), width)

\* <&CommandInput as Widget>::render: the lines it draws, top to bottom
render(input, width) ==
    <<Prompt \o Take(input, first_take(input, width))>>
        \o render_loop(Drop(input, first_take(input, width)), width)

\* the closure of terminal.draw panics
draw_panics(input, a, b) ==
    b = "debug" /\ (lines_count_overflows(input, a) \/ render_underflows(a.width))

\* the closure of terminal.draw: what it computes for the frame
draw_frame(input, a) ==
    [area |-> a,
     rows |-> lines_count(input, a),
     lines |-> render(input, a.width),
     cursor |-> cursor_position(input, a)]

-----------------------------------------------------------------------------
(* Terminal events *)

KeyCodes == Chars \cup {"Backspace", "Enter", "Esc", "Tab"}
Modifiers == {"NONE", "CONTROL"}
Kinds == {"Press", "Release"}
Areas == [width : 1..MaxWidth, height : {MaxHeight}]

KeyEvents == {Key(c, m, k) : c \in KeyCodes, m \in Modifiers, k \in Kinds}
OtherEvents == {[type |-> t] : t \in {"FocusGained", "FocusLost", "Mouse", "Paste"}}
ResizeEvents == {[type |-> "Resize", area |-> a] : a \in Areas}
Events == KeyEvents \cup OtherEvents \cup ResizeEvents

\* the events of the session model: the only character typed is "c"
SessionEvents == {e \in Events : ~(e.type = "Key" /\ e.code \in Chars \ {"c"})}

\* the arm of `match event::read()?` that takes the event: first match wins
arm(e) ==
    IF e.type = "Key" /\ e.code = "c" /\ e.modifiers = "CONTROL" THEN "break"
    ELSE IF e.type = "Key" /\ e.code = "Esc" THEN "esc"
    ELSE IF e.type = "Key" /\ e.code = "Enter" THEN "enter"
    ELSE IF e.type = "Key" /\ e.kind = "Press" THEN "key_press"
    ELSE IF e.type = "Key" THEN "todo"
    ELSE IF e.type = "FocusGained" THEN "todo"
    ELSE IF e.type = "FocusLost" THEN "todo"
    ELSE IF e.type = "Mouse" THEN "nothing"
    ELSE IF e.type = "Paste" THEN "todo"
    ELSE "resize"

-----------------------------------------------------------------------------
(* Channel endpoints: io_tx and network_rx are owned by the io_thread       *)
(* closure, io_rx and network_tx by the network_loop future; an endpoint    *)
(* is dropped when its owner ends or is dropped.                            *)

io_closure_alive == io_pc # "done"
network_future_alive == net_pc \notin {"done", "dropped"}

IsErr(r) == r \notin {"none", "Ok"}

\* Sender::send / blocking_send completes once the channel has a free slot
send_ready_unbounded(q) == TRUE
send_ready(q) == Len(q) < Capacity

\* Receiver::recv / try_recv hand out the oldest buffered message
oldest_newest_first(q) == Len(q)
oldest(q) == 1

\* the channel without the message at position i
Without(q, i) == SubSeq(q, 1, i - 1) \o SubSeq(q, i + 1, Len(q))

\* Receiver::try_recv: buffered messages are still handed out after the
\* sender is dropped
try_recv_ignore_closed(q, sender_alive) ==
    IF q # <<>> THEN "Ok" ELSE "Empty"
try_recv_empty_fatal(q, sender_alive) ==
    IF q # <<>> THEN "Ok" ELSE "Disconnected"
try_recv(q, sender_alive) ==
    IF q # <<>> THEN "Ok" ELSE IF sender_alive THEN "Empty" ELSE "Disconnected"

\* what the server answers to a request: a JSON value naming the request
Reply(req) == [id |-> req.id, result |-> req.script]

\* format_json: serde_json::to_string_pretty
format_json(value) == [pretty |-> value]

\* MoonrakerRPC { id: Uuid::new_v4(), .. params: { "script": input } }
MoonrakerRPC(input) == [id |-> Len(issued) + 1, script |-> input]

\* main before the loops run: empty channels and scrollback, terminal taken
ThreadInit ==
    /\ responses = <<>>
    /\ io_q = <<>>
    /\ network_q = <<>>
    /\ io_pc = "loop"
    /\ io_pending = <<>>
    /\ io_result = "none"
    /\ net_pc = "recv"
    /\ net_local = <<>>
    /\ net_result = "none"
    /\ in_flight = {}
    /\ outcome = "none"
    /\ raw_screen = TRUE
    /\ mouse_capture = TRUE
    /\ submitted = <<>>
    /\ issued = <<>>

Init ==
    /\ cmd_input = <<>>
    /\ area \in Areas
    /\ build \in {"debug", "release"}
    /\ ThreadInit

-----------------------------------------------------------------------------
(* The io_thread closure *)

\* `return Err(..)` or `?` inside the loop: the closure ends, nothing restored
IoReturnErr(err) ==
    /\ io_pc' = "done"
    /\ io_result' = err
    /\ UNCHANGED <<raw_screen, mouse_capture>>

\* a panic unwinds the closure; the panic hook installed by ratatui::init
\* restores raw mode and the alternate screen, not the mouse capture
IoPanic ==
    /\ io_pc' = "done"
    /\ io_result' = "Panic"
    /\ raw_screen' = FALSE
    /\ UNCHANGED mouse_capture

\* terminal.draw(|frame| ..) panics inside its closure
IoDrawPanic ==
    /\ io_pc = "loop"
    /\ draw_panics(cmd_input, area, build)
    /\ IoPanic
    /\ UNCHANGED <<widget_vars, responses, io_q, network_q, io_pending,
                   net_pc, net_local, net_result, in_flight, outcome, submitted, issued>>

\* terminal.draw(..) has drawn draw_frame(cmd_input, area) and event::poll runs
Polling ==
    /\ io_pc = "loop"
    /\ ~draw_panics(cmd_input, area, build)

\* terminal.draw(..)?, event::poll(..)?, event::read()? fail with an io::Error
IoTerminalError ==
    /\ io_pc = "loop"
    /\ IoReturnErr("IO")
    /\ UNCHANGED <<widget_vars, responses, io_q, network_q, io_pending,
                   net_pc, net_local, net_result, in_flight, outcome, submitted, issued>>

\* where the loop goes when event::poll returns false: past the `if`, to
\* the try_recv
after_poll_timeout_continue == "loop"
after_poll_timeout == "drain"

\* event::poll(100 ms) returns false
IoPollTimeout ==
    /\ Polling
    /\ io_pc' = after_poll_timeout
    /\ UNCHANGED <<widget_vars, responses, io_q, network_q, io_pending, io_result,
                   net_pc, net_local, net_result, in_flight, outcome,
                   raw_screen, mouse_capture, submitted, issued>>

\* Ctrl-C: break
IoInterrupt(e) ==
    /\ Polling
    /\ arm(e) = "break"
    /\ io_pc' = "restore"
    /\ UNCHANGED <<widget_vars, responses, io_q, network_q, io_pending, io_result,
                   net_pc, net_local, net_result, in_flight, outcome,
                   raw_screen, mouse_capture, submitted, issued>>

\* the arms with an empty body: Esc, Mouse
IoNoOp(e) ==
    /\ Polling
    /\ arm(e) \in {"esc", "nothing"}
    /\ io_pc' = "drain"
    /\ UNCHANGED <<widget_vars, responses, io_q, network_q, io_pending, io_result,
                   net_pc, net_local, net_result, in_flight, outcome,
                   raw_screen, mouse_capture, submitted, issued>>

\* Resize(_columns, _rows) => {}: the next frame.area() is the new size
IoResize(e) ==
    /\ Polling
    /\ arm(e) = "resize"
    /\ area' = e.area
    /\ io_pc' = "drain"
    /\ UNCHANGED <<cmd_input, build, responses, io_q, network_q, io_pending,
                   io_result, net_pc, net_local, net_result, in_flight, outcome,
                   raw_screen, mouse_capture, submitted, issued>>

\* let input = cmd.input; cmd.input = String::new(): what is sent and what
\* is left in the widget
take_input_after_reset(input) == [sent |-> <<>>, left |-> <<>>]
take_input(input) == [sent |-> input, left |-> <<>>]

\* Enter: take the buffer, reset it, io_tx.blocking_send(input)
IoEnter(e) ==
    /\ Polling
    /\ arm(e) = "enter"
    /\ io_pending' = take_input(cmd_input).sent
    /\ cmd_input' = take_input(cmd_input).left
    /\ io_pc' = "send"
    /\ UNCHANGED <<area, build, responses, io_q, network_q, io_result,
                   net_pc, net_local, net_result, in_flight, outcome,
                   raw_screen, mouse_capture, submitted, issued>>

\* where the loop goes after the Enter arm: past the match, to the try_recv
after_submit_next_iteration == "loop"
after_submit == "drain"

\* io_tx.blocking_send(input)?: waits while the channel is full
IoSend ==
    /\ io_pc = "send"
    /\ IF ~network_future_alive
       THEN IoReturnErr("SendError") /\ UNCHANGED <<io_q, submitted>>
       ELSE /\ send_ready(io_q)
            /\ io_q' = Append(io_q, io_pending)
            /\ submitted' = Append(submitted, io_pending)
            /\ io_pc' = after_submit
            /\ UNCHANGED <<io_result, raw_screen, mouse_capture>>
    /\ UNCHANGED <<widget_vars, responses, network_q, io_pending,
                   net_pc, net_local, net_result, in_flight, outcome, issued>>

\* Event::Key(event) if event.kind == Press => cmd.on_key_press(event)
IoKeyPress(e) ==
    /\ Polling
    /\ arm(e) = "key_press"
    /\ Len(on_key_press(cmd_input, e)) <= MaxInput
    /\ cmd_input' = on_key_press(cmd_input, e)
    /\ io_pc' = "drain"
    /\ UNCHANGED <<area, build, responses, io_q, network_q, io_pending,
                   io_result, net_pc, net_local, net_result, in_flight, outcome,
                   raw_screen, mouse_capture, submitted, issued>>

\* the todo!() arms: other key kinds, FocusGained, FocusLost, Paste
IoTodo(e) ==
    /\ Polling
    /\ arm(e) = "todo"
    /\ IoPanic
    /\ UNCHANGED <<widget_vars, responses, io_q, network_q, io_pending,
                   net_pc, net_local, net_result, in_flight, outcome, submitted, issued>>

\* Vec::push
push_front(v, x) == <<x>> \o v
push(v, x) == Append(v, x)

\* match network_rx.try_recv()
IoDrain ==
    /\ io_pc = "drain"
    /\ CASE try_recv(network_q, network_future_alive) = "Ok" ->
                /\ responses' = push(responses, network_q[oldest(network_q)])
                /\ network_q' = Without(network_q, oldest(network_q))
                /\ io_pc' = "loop"
                /\ UNCHANGED <<io_result, raw_screen, mouse_capture>>
         [] try_recv(network_q, network_future_alive) = "Empty" ->
                /\ io_pc' = "loop"
                /\ UNCHANGED <<responses, network_q, io_result, raw_screen, mouse_capture>>
         [] try_recv(network_q, network_future_alive) = "Disconnected" ->
                /\ IoReturnErr("DisconnectedNetworkChannel")
                /\ UNCHANGED <<responses, network_q>>
    /\ UNCHANGED <<widget_vars, io_q, io_pending, net_pc, net_local, net_result,
                   in_flight, outcome, submitted, issued>>

\* after the loop: DisableMouseCapture, ratatui::restore(), Ok(())
IoRestore ==
    /\ io_pc = "restore"
    /\ mouse_capture' = FALSE
    /\ raw_screen' = FALSE
    /\ io_pc' = "done"
    /\ io_result' = "Ok"
    /\ UNCHANGED <<widget_vars, responses, io_q, network_q, io_pending,
                   net_pc, net_local, net_result, in_flight, outcome, submitted, issued>>

\* std::io::stdout().execute(DisableMouseCapture)? fails
IoRestoreError ==
    /\ io_pc = "restore"
    /\ IoReturnErr("IO")
    /\ UNCHANGED <<widget_vars, responses, io_q, network_q, io_pending,
                   net_pc, net_local, net_result, in_flight, outcome, submitted, issued>>

-----------------------------------------------------------------------------
(* network_loop, polled by select! until main has an outcome *)

\* network_loop returns: select! completes with its result
NetReturn(res) ==
    /\ net_pc' = "done"
    /\ net_result' = res
    /\ outcome' = res
    /\ net_local' = <<>>

\* the loop is at io_rx.recv().await only between two iterations
awaiting_command_concurrent == net_pc \in {"recv", "http"}
awaiting_command == net_pc = "recv"

\* recv() gave None: .ok_or(Error::DisconnectedIOChannel)?
recv_none_quiet == "Ok"
recv_none == "DisconnectedIOChannel"

\* the chain of awaits after .send() failed: the `?` returns the error
NetFailure_skip(err) ==
    /\ net_pc' = "recv"
    /\ net_local' = <<>>
    /\ UNCHANGED <<net_result, outcome>>
request_failed(err) == NetReturn(err)

\* io_rx.recv().await.ok_or(DisconnectedIOChannel)?, then the request is
\* built and sent
NetRecv ==
    /\ outcome = "none"
    /\ awaiting_command
    /\ IF io_q # <<>>
       THEN /\ io_q' = Without(io_q, oldest(io_q))
            /\ net_local' = MoonrakerRPC(io_q[oldest(io_q)])
            /\ in_flight' = in_flight \cup {MoonrakerRPC(io_q[oldest(io_q)])}
            /\ issued' = Append(issued, MoonrakerRPC(io_q[oldest(io_q)]))
            /\ net_pc' = "http"
            /\ UNCHANGED <<net_result, outcome>>
       ELSE /\ ~io_closure_alive
            /\ NetReturn(recv_none)
            /\ UNCHANGED <<io_q, in_flight, issued>>
    /\ UNCHANGED <<widget_vars, responses, network_q, io_pc, io_pending, io_result,
                   raw_screen, mouse_capture, submitted>>

\* .send().await?.json().await.map_err(..).and_then(format_json)? succeeds
NetResponse ==
    /\ outcome = "none"
    /\ net_pc = "http"
    /\ in_flight' = in_flight \ {net_local}
    /\ net_local' = format_json(Reply(net_local))
    /\ net_pc' = "send"
    /\ UNCHANGED <<widget_vars, responses, io_q, network_q, io_pc, io_pending,
                   io_result, net_result, outcome, raw_screen, mouse_capture,
                   submitted, issued>>

\* the same chain fails: transport or body parse (Request), format_json (Serde)
NetFailure ==
    /\ outcome = "none"
    /\ net_pc = "http"
    /\ in_flight' = in_flight \ {net_local}
    /\ \E err \in {"Request", "Serde"} : request_failed(err)
    /\ UNCHANGED <<widget_vars, responses, io_q, network_q, io_pc, io_pending,
                   io_result, raw_screen, mouse_capture, submitted, issued>>

\* network_tx.send(resp).await?: waits while the channel is full
NetSend ==
    /\ outcome = "none"
    /\ net_pc = "send"
    /\ IF ~io_closure_alive
       THEN NetReturn("SendError") /\ UNCHANGED network_q
       ELSE /\ send_ready(network_q)
            /\ network_q' = Append(network_q, net_local)
            /\ net_local' = <<>>
            /\ net_pc' = "recv"
            /\ UNCHANGED <<net_result, outcome>>
    /\ UNCHANGED <<widget_vars, responses, io_q, io_pc, io_pending, io_result,
                   in_flight, raw_screen, mouse_capture, submitted, issued>>

-----------------------------------------------------------------------------
(* main: tokio::select! over the io_thread JoinHandle and network_loop *)

\* the io_thread branch completes: its result is the outcome, a panic is a
\* JoinError; the network_loop future is dropped with what it holds
SelectIo ==
    /\ outcome = "none"
    /\ io_pc = "done"
    /\ outcome' = IF io_result = "Panic" THEN "JoinError" ELSE io_result
    /\ net_pc' = "dropped"
    /\ net_local' = <<>>
    /\ in_flight' = {}
    /\ UNCHANGED <<widget_vars, responses, io_q, network_q, io_pc, io_pending,
                   io_result, net_result, raw_screen, mouse_capture, submitted, issued>>

\* an Enter of the session model: at most MaxCmds commands are submitted
SessionEnter(e) == Len(submitted) < MaxCmds /\ IoEnter(e)

Next ==
    \/ IoDrawPanic
    \/ IoTerminalError
    \/ IoPollTimeout
    \/ \E e \in SessionEvents : IoTodo(e)
    \/ \E e \in SessionEvents : IoInterrupt(e)
    \/ \E e \in SessionEvents : IoNoOp(e)
    \/ \E e \in SessionEvents : IoResize(e)
    \/ \E e \in SessionEvents : SessionEnter(e)
    \/ \E e \in SessionEvents : IoKeyPress(e)
    \/ IoSend
    \/ IoDrain
    \/ IoRestore
    \/ IoRestoreError
    \/ NetRecv
    \/ NetResponse
    \/ NetFailure
    \/ NetSend
    \/ SelectIo

Spec == Init /\ [][Next]_vars

-----------------------------------------------------------------------------
(* The widget alone: any buffer at any terminal size, keys and resizes.     *)
(* Long buffers are looked at only on a wide terminal.                      *)

LongInput == [i \in 1..LongLen |-> "a"]
WAreas == [width : (1..MaxWWidth) \cup {WideWidth}, height : 1..MaxHeight]

WBounded(input, a) ==
    \/ Len(input) <= MaxWInput
    \/ /\ Len(input) >= LongLen - 1
       /\ Len(input) <= LongLen + MaxLongMore
       /\ a.width = WideWidth

WInit ==
    /\ cmd_input \in {<<>>, LongInput}
    /\ area \in WAreas
    /\ WBounded(cmd_input, area)
    /\ build \in {"debug", "release"}
    /\ ThreadInit

\* cmd.on_key_press(event) on a key press
WKeyPress(e) ==
    /\ arm(e) = "key_press"
    /\ WBounded(on_key_press(cmd_input, e), area)
    /\ cmd_input' = on_key_press(cmd_input, e)
    /\ UNCHANGED <<area, build, thread_vars>>

\* the terminal is resized: frame.area() changes
WResize(a) ==
    /\ WBounded(cmd_input, a)
    /\ area' = a
    /\ UNCHANGED <<cmd_input, build, thread_vars>>

WNext ==
    \/ \E e \in Events : WKeyPress(e)
    \/ \E a \in WAreas : WResize(a)

WidgetSpec == WInit /\ [][WNext]_vars

\* the widget from CommandInput::new(): the buffer starts empty
EditInit == WInit /\ cmd_input = <<>>

EditSpec == EditInit /\ [][WNext]_vars

-----------------------------------------------------------------------------
(* Properties of the session *)

\* the response the server gives to the k-th submitted command, as displayed
ResponseTo(k) == format_json(Reply([id |-> k, script |-> submitted[k]]))

\* C1: the scrollback is, in every reachable state, a prefix of the sequence
\* (response to command 1, response to command 2, ...): responses arrive in
\* submission order, each exactly once.
C1_ResponsesInSubmissionOrder ==
    /\ Len(responses) <= Len(submitted)
    /\ \A k \in 1..Len(responses) : responses[k] = ResponseTo(k)

\* C1 witness: three commands of different text were submitted and all three
\* responses are in the scrollback.
C1_Witness ==
    /\ Len(responses) = 3
    /\ submitted[1] # submitted[2]
    /\ submitted[2] # submitted[3]

\* the session is over: main has its outcome and the io_thread has ended
SessionEnded == outcome # "none" /\ io_pc = "done"

\* C2: in no terminated state of the session is the terminal still held:
\* the alternate screen is left and the mouse capture disabled on every way
\* the session can end.
C2_TerminalRestoredOnEveryExit ==
    SessionEnded => (~raw_screen /\ ~mouse_capture)

\* the event kinds C3 is about: everything but key presses
C3_OtherEvent(e) ==
    \/ e.type \in {"FocusGained", "FocusLost", "Paste", "Resize", "Mouse"}
    \/ e.type = "Key" /\ e.kind # "Press"

\* the UI loop reads event e and runs the arm that takes it
IoEvent(e) ==
    \/ IoInterrupt(e)
    \/ IoNoOp(e)
    \/ IoResize(e)
    \/ IoEnter(e)
    \/ IoKeyPress(e)
    \/ IoTodo(e)

\* C3: an event that is not a key press is a no-op: the UI loop goes on
\* Running to its drain, and the buffer, the scrollback and both queues are
\* unchanged; none ends the loop.
C3_OtherEventsAreNoOps ==
    [][\A e \in SessionEvents :
        (C3_OtherEvent(e) /\ IoEvent(e)) =>
            /\ io_pc' = "drain"
            /\ io_result' = "none"
            /\ UNCHANGED <<cmd_input, responses, io_q, network_q>>]_vars

\* C4: at most one request is in flight, and while one is, the response to
\* every earlier request has been pushed onto the response queue.
C4_OneRequestInFlight ==
    /\ Cardinality(in_flight) <= 1
    /\ in_flight # {} => Len(responses) + Len(network_q) = Len(issued) - 1

\* C4 witness: the second request is in flight while a third command waits
\* in the command queue.
C4_Witness ==
    /\ Cardinality(in_flight) = 1
    /\ Len(issued) = 2
    /\ io_q # <<>>

\* a producer pushing while Capacity items are unconsumed
IoBlocked == io_pc = "send" /\ Len(io_q) = Capacity /\ network_future_alive
NetBlocked ==
    /\ outcome = "none"
    /\ net_pc = "send"
    /\ Len(network_q) = Capacity
    /\ io_closure_alive

\* C5: neither queue ever holds more than 2 items, and a producer that
\* pushes onto a full queue stays where it is, its push not done, as long as
\* the queue is full.
C5_CapacityTwoBlocksProducer ==
    /\ [](Len(io_q) <= 2 /\ Len(network_q) <= 2)
    /\ [][IoBlocked =>
            /\ io_pc' = "send"
            /\ Len(io_q') <= Len(io_q)
            /\ UNCHANGED <<io_pending, submitted, cmd_input, responses>>]_vars
    /\ [][NetBlocked =>
            /\ net_pc' = "send"
            /\ Len(network_q') <= Len(network_q)
            /\ Len(io_q') >= Len(io_q)
            /\ UNCHANGED <<net_local, issued>>]_vars

\* C5 witness: the UI loop is submitting a third command while two are
\* unconsumed.
C5_Witness == IoBlocked /\ Len(submitted) = 2

\* the network loop awaits a command, the queue is empty and its sender gone
NetAwaitsClosed ==
    /\ outcome = "none"
    /\ net_pc = "recv"
    /\ io_q = <<>>
    /\ ~io_closure_alive

C7_RequestFailureEndsSession ==
    /\ [][(net_pc = "http" /\ net_pc' \notin {"http", "send", "dropped"}) =>
            /\ net_pc' = "done"
            /\ net_result' \in {"Request", "Serde"}
            /\ outcome' = net_result'
            /\ UNCHANGED <<network_q, issued, io_q>>]_vars
    /\ [][net_pc = "done" =>
            /\ UNCHANGED <<net_pc, net_result, outcome, issued, in_flight>>
            /\ Len(network_q') <= Len(network_q)]_vars
    /\ [](net_result \in {"Request", "Serde"} =>
            /\ IsErr(outcome)
            /\ Len(responses) + Len(network_q) = Len(issued) - 1)

\* C7 witness: the second request failed while a third command was waiting.
C7_Witness ==
    /\ net_result = "Request"
    /\ Len(issued) = 2
    /\ io_q # <<>>

\* C8: a closed queue seen by the UI loop ends it in Terminated(Err): the
\* drain of a closed empty response queue ends it with
\* DisconnectedNetworkChannel, the submit onto a closed command queue with
\* SendError; neither lets the loop go on nor end Ok.
C8_ClosedQueueIsFatalForUiLoop ==
    /\ [][(io_pc = "drain" /\ network_q = <<>> /\ ~network_future_alive
            /\ io_pc' # "drain") =>
            /\ io_pc' = "done"
            /\ io_result' = "DisconnectedNetworkChannel"]_vars
    /\ [][(io_pc = "send" /\ ~network_future_alive /\ io_pc' # "send") =>
            /\ io_pc' = "done"
            /\ io_result' = "SendError"]_vars

\* C8 witness: the UI loop found the response queue closed while draining.
C8_Witness ==
    /\ io_result = "DisconnectedNetworkChannel"
    /\ net_result = "Request"

-----------------------------------------------------------------------------
(* Properties of the widget *)

\* C9: for every length L = prompt + buffer and every positive width W,
\* lines_count is floor(L/W) + 1 and the cursor column is L mod W, and
\* neither computation fails.
C9_RowsAndCursorColumn ==
    /\ ~(build = "debug" /\ lines_count_overflows(cmd_input, area))
    /\ lines_count(cmd_input, area) = (len(cmd_input) \div area.width) + 1
    /\ cursor_position(cmd_input, area).x = len(cmd_input) % area.width

RECURSIVE Flatten(_)
Flatten(ls) == IF ls = <<>> THEN <<>> ELSE Head(ls) \o Flatten(Tail(ls))

RECURSIVE Chunks(_, _)
Chunks(chars, w) ==
    IF chars = <<>> THEN <<>>
    ELSE <<SubSeq(chars, 1, Min(w, Len(chars)))>>
             \o Chunks(SubSeq(chars, Min(w, Len(chars)) + 1, Len(chars)), w)

\* the columns left on the first line after the prompt
C10_Remaining(w) == IF w > Len(Prompt) THEN w - Len(Prompt) ELSE 0

\* C10: render draws the prompt followed by the longest prefix of the buffer
\* that fits in the remaining W - prompt_length columns, then the rest of
\* the buffer W characters a line; every line has at most W characters and
\* the lines together are prompt + buffer, also when W is smaller than the
\* prompt.
C10_RenderLines ==
    /\ ~(build = "debug" /\ render_underflows(area.width))
    /\ \A i \in 1..Len(render(cmd_input, area.width)) :
            Len(render(cmd_input, area.width)[i]) <= area.width
    /\ Flatten(render(cmd_input, area.width)) = Prompt \o cmd_input
    /\ render(cmd_input, area.width) =
            <<Prompt \o SubSeq(cmd_input, 1, Min(C10_Remaining(area.width), Len(cmd_input)))>>
            \o Chunks(SubSeq(cmd_input, Min(C10_Remaining(area.width), Len(cmd_input)) + 1,
                             Len(cmd_input)), area.width)

-----------------------------------------------------------------------------
(* Properties of the scrollback, the widget's buffer and the drain *)

\* C11: the scrollback is append-only: every step leaves it as it is or
\* appends one entry at its end, the response the drain took from the
\* response queue; no entry is changed, removed or moved.
C11_ScrollbackAppendOnly ==
    [][\/ responses' = responses
       \/ /\ io_pc = "drain"
          /\ network_q # <<>>
          /\ Len(responses') = Len(responses) + 1
          /\ SubSeq(responses', 1, Len(responses)) = responses
          /\ responses'[Len(responses')] = Head(network_q)
          /\ network_q' = Tail(network_q)]_vars

\* C11 witness: a second response was appended after a first one.
C11_Witness ==
    /\ Len(responses) = 2
    /\ responses[1] # responses[2]
    /\ io_pc = "loop"

\* C12: a Backspace press on the empty buffer leaves it empty, with length()
\* the prompt's length; on a non-empty buffer it removes the last character
\* and leaves the others as they were.
C12_BackspaceRemovesLast ==
    [][\A e \in Events :
        (e.type = "Key" /\ e.code = "Backspace" /\ WKeyPress(e)) =>
            IF cmd_input = <<>>
            THEN cmd_input' = <<>> /\ len(cmd_input') = Len(Prompt)
            ELSE /\ Len(cmd_input') = Len(cmd_input) - 1
                 /\ \A i \in 1..Len(cmd_input') : cmd_input'[i] = cmd_input[i]]_vars

\* C12 witness: a buffer of two different characters, which a Backspace
\* shortens to its first character.
C12_Witness == cmd_input = <<"c", "a">> /\ area.width = 3

\* C13: an Enter hands the buffer as it was to the submit and leaves the
\* buffer empty; the submit pushes that one command once; nothing else
\* extends the command queue; so the commands the network loop has received
\* are the buffers of the Enter events, in order.
C13_EnterSubmitsBuffer ==
    /\ [][(io_pc = "loop" /\ io_pc' = "send") =>
            /\ io_pending' = cmd_input
            /\ cmd_input' = <<>>
            /\ UNCHANGED <<io_q, submitted>>]_vars
    /\ [][io_pc = "send" => io_pending' = io_pending]_vars
    /\ [][io_q' # io_q /\ Len(io_q') >= Len(io_q) =>
            /\ io_pc = "send"
            /\ io_pc' # "send"
            /\ io_q' = Append(io_q, io_pending)
            /\ submitted' = Append(submitted, io_pending)]_vars
    /\ [](/\ Len(issued) <= Len(submitted)
          /\ \A k \in 1..Len(issued) : issued[k].script = submitted[k])

\* C13 witness: the network loop has received an empty command and then the
\* command "c".
C13_Witness ==
    /\ Len(issued) = 2
    /\ issued[1].script = <<>>
    /\ issued[2].script = <<"c">>

\* C14: only the drain removes from the response queue, one response for
\* one iteration; the drain can always take its step (it never waits); and
\* on an empty open queue it ends the iteration with the scrollback
\* unchanged and the loop still Running.
C14_DrainAtMostOneNeverBlocks ==
    /\ [][Len(network_q') < Len(network_q) =>
            /\ io_pc = "drain"
            /\ io_pc' = "loop"
            /\ Len(network_q') = Len(network_q) - 1]_vars
    /\ [](io_pc = "drain" => ENABLED IoDrain)
    /\ [][(io_pc = "drain" /\ network_q = <<>> /\ network_future_alive
            /\ io_pc' # "drain") =>
            /\ io_pc' = "loop"
            /\ io_result' = "none"
            /\ responses' = responses]_vars

\* C14 witness: the iteration that submitted the first command has ended
\* with a drain that found the open response queue empty.
C14_Witness ==
    /\ io_pc = "loop"
    /\ io_result = "none"
    /\ Len(submitted) = 1
    /\ responses = <<>>
    /\ network_q = <<>>
    /\ network_future_alive

\* C15: once the UI loop has left through the interrupt arm and returned
\* Ok, the outcome of the select! is success, never the error the network
\* loop returns on seeing a queue closed by that exit.
C15_InterruptExitIsSuccess ==
    (io_result = "Ok" /\ outcome # "none") => outcome = "Ok"

-----------------------------------------------------------------------------
(* The two loops as a pipeline: a session in which no terminal call
   fails, every request succeeds and the user never interrupts, long
   enough to fill both queues *)

MaxPipeCmds == 6

PipeInit ==
    /\ cmd_input = <<>>
    /\ area = [width |-> MaxWidth, height |-> MaxHeight]
    /\ build \in {"debug", "release"}
    /\ ThreadInit

PipeEnter(e) == Len(submitted) < MaxPipeCmds /\ IoEnter(e)

\* the steps the io_thread loop takes by itself, with no event from the user
UiStep == IoPollTimeout \/ IoSend \/ IoDrain

\* the steps of network_loop when the request chain returns Ok
NetStep == NetRecv \/ NetResponse \/ NetSend

PipeNext ==
    \/ IoPollTimeout
    \/ \E e \in SessionEvents : IoNoOp(e)
    \/ \E e \in SessionEvents : PipeEnter(e)
    \/ IoSend
    \/ IoDrain
    \/ NetRecv
    \/ NetResponse
    \/ NetSend

PipeSpec == PipeInit /\ [][PipeNext]_vars

\* spawn_blocking gives the closure a thread of its own and the runtime
\* keeps polling network_loop: each loop goes on whenever it can
FairPipeSpec == PipeSpec /\ WF_vars(UiStep) /\ WF_vars(NetStep)

\* C16: the UI loop is never blocked on a full command queue while the
\* network loop is blocked on a full response queue.
C16_NoBackpressureDeadlock == ~(IoBlocked /\ NetBlocked)

\* C16 witness: the network loop is blocked pushing to the full response
\* queue while the UI loop is submitting a command, to a command queue
\* that still has room.
C16_Witness ==
    /\ NetBlocked
    /\ io_pc = "send"
    /\ Len(io_q) < Capacity

\* C17: with both loops scheduled fairly, every request succeeding and no
\* interrupt or error, the k-th submitted command eventually has its
\* response in the scrollback, with no event from the user needed.
C17_EverySubmittedCommandAnswered ==
    \A k \in 1..MaxPipeCmds :
        (Len(submitted) >= k) ~>
            (Len(responses) >= k /\ responses[k].pretty.id = k
                /\ responses[k].pretty.result = submitted[k])

\* C17 witness: every command of the session has been submitted and the
\* scrollback holds a response for each, the last ones drained after
\* poll timeouts.
C17_Witness ==
    /\ Len(submitted) = MaxPipeCmds
    /\ Len(responses) = MaxPipeCmds
    /\ io_q = <<>>
    /\ network_q = <<>>

-----------------------------------------------------------------------------
\* Layout::vertical([Fill(1), Length(rows)]).areas(area): the second area,
\* the bottom rows of the frame
input_area(input, a) ==
    LET height == Min(lines_count(input, a), a.height)
    IN  [x |-> 0, y |-> a.height - height, width |-> a.width, height |-> height]

\* C18: in every drawn frame the cursor column is cursor_column(width) and
\* the cursor row is a row of the frame inside the input region, the one
\* after the floor(L/W) full rows of the rendered text.
C18_CursorInsideInputRegion ==
    Polling =>
        LET frame == draw_frame(cmd_input, area)
            region == input_area(cmd_input, area)
        IN  /\ frame.cursor.x = len(cmd_input) % area.width
            /\ frame.cursor.y < frame.area.height
            /\ frame.cursor.y >= region.y
            /\ frame.cursor.y = region.y + (len(cmd_input) \div area.width)

\* C19: for every buffer built by appends and backspaces and every width
\* not smaller than the prompt, render draws at most lines_count lines,
\* the rows the layout reserves for the input region.
C19_RenderFitsReservedRows ==
    area.width >= Len(Prompt) =>
        Len(render(cmd_input, area.width)) <= lines_count(cmd_input, area)

====
